---- MODULE Spec2Model ----
(***************************************************************************)
(* Model of src/app.py: the plagiarism scoring functions (clean_text,      *)
(* calculate_similarity, check_plagiarism), the file-extraction gate of    *)
(* show_student_dashboard and the CSV-backed submission store              *)
(* (save_submission_to_db, get_previous_submissions).                      *)
(*                                                                         *)
(* A text is a sequence of one-character strings.  A score is the exact    *)
(* rational 100*|common|/|all| kept as a reduced fraction [num, den]; for  *)
(* the set sizes of this model the float the code computes compares with   *)
(* 0, 10, 30, 70 and 100 exactly as the rational does.                     *)
(***************************************************************************)
EXTENDS Integers, Sequences, FiniteSets, TLC

(* ------------------------------ characters ----------------------------- *)

LowerLetters ==
  {"a", "b", "c", "d", "e", "f", "g", "h", "i", "j", "k", "l", "m",
   "n", "o", "p", "q", "r", "s", "t", "u", "v", "w", "x", "y", "z"}

UpperSeq ==
  <<"A", "B", "C", "D", "E", "F", "G", "H", "I", "J", "K", "L", "M",
    "N", "O", "P", "Q", "R", "S", "T", "U", "V", "W", "X", "Y", "Z">>

LowerSeq ==
  <<"a", "b", "c", "d", "e", "f", "g", "h", "i", "j", "k", "l", "m",
    "n", "o", "p", "q", "r", "s", "t", "u", "v", "w", "x", "y", "z">>

\* the characters str.strip(), str.split() and the regex class \s take as space
Whitespace == {" ", "\n", "\t"}

\* str.lower() on one character
LowerOf(c) ==
  IF \E i \in 1..Len(UpperSeq) : UpperSeq[i] = c
  THEN LowerSeq[CHOOSE i \in 1..Len(UpperSeq) : UpperSeq[i] = c]
  ELSE c

\* str.upper() on one character
UpperOf(c) ==
  IF \E i \in 1..Len(LowerSeq) : LowerSeq[i] = c
  THEN UpperSeq[CHOOSE i \in 1..Len(LowerSeq) : LowerSeq[i] = c]
  ELSE c

Lower(text) == [i \in 1..Len(text) |-> LowerOf(text[i])]

Upper(text) == [i \in 1..Len(text) |-> UpperOf(text[i])]

\* not text.strip(): the text is empty or all whitespace
IsBlank(text) == \A i \in 1..Len(text) : text[i] \in Whitespace

\* text.startswith(prefix)
StartsWith(text, prefix) ==
  /\ Len(text) >= Len(prefix)
  /\ \A i \in 1..Len(prefix) : text[i] = prefix[i]

\* text.endswith(suffix)
EndsWith(text, suffix) ==
  /\ Len(text) >= Len(suffix)
  /\ \A i \in 1..Len(suffix) : text[Len(text) - Len(suffix) + i] = suffix[i]

\* text[:n]
Prefix(text, n) == SubSeq(text, 1, IF Len(text) < n THEN Len(text) ELSE n)

\* the positions where a maximal run of non-whitespace begins, and where one ends
WordStarts(text) ==
  {i \in 1..Len(text) :
     text[i] \notin Whitespace /\ (i = 1 \/ text[i - 1] \in Whitespace)}

WordEnds(text) ==
  {i \in 1..Len(text) :
     text[i] \notin Whitespace /\ (i = Len(text) \/ text[i + 1] \in Whitespace)}

\* the k-th smallest number of the set S
Nth(S, k) == CHOOSE x \in S : Cardinality({y \in S : y < x}) = k - 1

\* str.split(): the maximal runs of non-whitespace, in order
Split(text) ==
  LET starts == WordStarts(text)
      ends == WordEnds(text)
  IN [k \in 1..Cardinality(starts) |-> SubSeq(text, Nth(starts, k), Nth(ends, k))]

\* ' '.join(words)
RECURSIVE JoinFrom(_, _, _)
JoinFrom(words, i, acc) ==
  IF i > Len(words) THEN acc
  ELSE JoinFrom(words, i + 1, IF i = 1 THEN words[1] ELSE acc \o <<" ">> \o words[i])

Join(words) == JoinFrom(words, 1, <<>>)

\* re.sub(r'[^a-z\s]', ' ', text)
SubNonLetters(text) ==
  [i \in 1..Len(text) |->
     IF text[i] \in LowerLetters \cup Whitespace THEN text[i] ELSE " "]

(* ------------------------------- scoring ------------------------------- *)

MinCleanLen == 50
ReportFloor == 10
PreviewLen == 300

clean_text(text) ==
  IF IsBlank(text) THEN <<>>
  ELSE Join(Split(SubNonLetters(Lower(text))))

RECURSIVE GCD(_, _)
GCD(a, b) == IF b = 0 THEN a ELSE GCD(b, a % b)

\* the value n/d as a reduced fraction
Frac(n, d) == [num |-> n \div GCD(n, d), den |-> d \div GCD(n, d)]

Zero == [num |-> 0, den |-> 1]
Hundred == [num |-> 100, den |-> 1]

ScoreLess(x, y) == x.num * y.den < y.num * x.den

ScoreMin(x, y) == IF ScoreLess(y, x) THEN y ELSE x

WordSet(clean) == LET words == Split(clean) IN {words[i] : i \in 1..Len(words)}

\* the score with the sizes of the two word sets added up for the denominator
calculate_similarity_sum(text1, text2) ==
  IF text1 = <<>> \/ text2 = <<>> THEN Zero
  ELSE LET text1_clean == clean_text(text1)
           text2_clean == clean_text(text2)
       IN IF Len(text1_clean) < MinCleanLen \/ Len(text2_clean) < MinCleanLen
          THEN Zero
          ELSE LET words1 == WordSet(text1_clean)
                   words2 == WordSet(text2_clean)
                   common == words1 \cap words2
               IN ScoreMin(Frac(100 * Cardinality(common),
                                Cardinality(words1) + Cardinality(words2)),
                           Hundred)

\* the score when only two short texts together are skipped
calculate_similarity_and(text1, text2) ==
  IF text1 = <<>> \/ text2 = <<>> THEN Zero
  ELSE LET text1_clean == clean_text(text1)
           text2_clean == clean_text(text2)
       IN IF Len(text1_clean) < MinCleanLen /\ Len(text2_clean) < MinCleanLen
          THEN Zero
          ELSE LET words1 == WordSet(text1_clean)
                   words2 == WordSet(text2_clean)
                   common == words1 \cap words2
                   all_words == words1 \cup words2
               IN IF all_words = {} THEN Zero
                  ELSE ScoreMin(Frac(100 * Cardinality(common), Cardinality(all_words)),
                                Hundred)

\* the score as the share of the first text's words found in the second
calculate_similarity_first(text1, text2) ==
  IF text1 = <<>> \/ text2 = <<>> THEN Zero
  ELSE LET text1_clean == clean_text(text1)
           text2_clean == clean_text(text2)
       IN IF Len(text1_clean) < MinCleanLen \/ Len(text2_clean) < MinCleanLen
          THEN Zero
          ELSE LET words1 == WordSet(text1_clean)
                   words2 == WordSet(text2_clean)
                   common == words1 \cap words2
               IN IF words1 = {} THEN Zero
                  ELSE ScoreMin(Frac(100 * Cardinality(common), Cardinality(words1)),
                                Hundred)

calculate_similarity(text1, text2) ==
  IF text1 = <<>> \/ text2 = <<>> THEN Zero
  ELSE LET text1_clean == clean_text(text1)
           text2_clean == clean_text(text2)
       IN IF Len(text1_clean) < MinCleanLen \/ Len(text2_clean) < MinCleanLen
          THEN Zero
          ELSE LET words1 == WordSet(text1_clean)
                   words2 == WordSet(text2_clean)
                   common == words1 \cap words2
                   all_words == words1 \cup words2
               IN IF all_words = {} THEN Zero
                  ELSE ScoreMin(Frac(100 * Cardinality(common), Cardinality(all_words)),
                                Hundred)

(* ----------------------------- input texts ----------------------------- *)

W1 == <<"c", "o", "m", "m", "u", "n", "i", "c", "a", "t", "i", "o", "n">>
W2 == <<"u", "n", "d", "e", "r", "s", "t", "a", "n", "d", "i", "n", "g">>
W3 == <<"i", "n", "t", "e", "r", "n", "a", "t", "i", "o", "n", "a", "l">>
W4 == <<"e", "n", "v", "i", "r", "o", "n", "m", "e", "n", "t", "a", "l">>
W5 == <<"i", "n", "v", "e", "s", "t", "i", "g", "a", "t", "i", "o", "n">>
W6 == <<"e", "s", "s", "a", "y">>
W7 == <<"p", "a", "p", "e", "r">>
W8 == <<"s", "t", "u", "d", "y">>
W9 == <<"c", "l", "a", "s", "s">>
W10 == <<"g", "r", "a", "d", "e">>
W11 == <<"n", "o", "t", "e", "s">>

\* thirteen-letter words first, five-letter words after them
Vocabulary == <<W1, W2, W3, W4, W5, W6, W7, W8, W9, W10, W11>>

Styles == {"plain", "messy"}

Capitalize(w) == <<UpperOf(w[1])>> \o Tail(w)

\* the words ws (indices into Vocabulary) written out: "plain" joins them with
\* one space; "messy" capitalizes each, puts ", 7" and a newline between them
\* and a full stop at the end
RECURSIVE BuildFrom(_, _, _, _)
BuildFrom(ws, i, style, acc) ==
  IF i > Len(ws) THEN IF style = "messy" /\ ws # <<>> THEN acc \o <<".">> ELSE acc
  ELSE LET w == IF style = "messy" THEN Capitalize(Vocabulary[ws[i]])
                ELSE Vocabulary[ws[i]]
           sep == IF i = 1 THEN <<>>
                  ELSE IF style = "messy" THEN <<",", " ", "7", "\n">> ELSE <<" ">>
       IN BuildFrom(ws, i + 1, style, acc \o sep \o w)

Build(ws, style) == BuildFrom(ws, 1, style, <<>>)

\* n consecutive words of the vocabulary from word i on, the run written r times
WordRun(i, n, r) == [k \in 1..(n * r) |-> i + ((k - 1) % n)]

MaxWords == 5
MaxReps == 2

SimTexts ==
  {Build(WordRun(i, n, r), st) :
     <<i, n, r, st>> \in
       {q \in (1..Len(Vocabulary)) \X (0..MaxWords) \X (1..MaxReps) \X Styles :
          /\ q[1] + q[2] - 1 <= Len(Vocabulary)
          /\ (q[2] = 0 => q[1] = 1 /\ q[3] = 1)}}

SimPartners == {Build(WordRun(i, MaxWords, 1), "plain") : i \in {1, 3, 6}}

\* the run of words ws read backwards
Reverse(ws) == [k \in 1..Len(ws) |-> ws[Len(ws) + 1 - k]]

\* the starts and lengths of the word runs of SimTexts
SimRuns ==
  {q \in (1..Len(Vocabulary)) \X (0..MaxWords) :
     /\ q[1] + q[2] - 1 <= Len(Vocabulary)
     /\ (q[2] = 0 => q[1] = 1)}

\* a text of SimTexts beside another way of writing the same words: the run
\* repeated, or in reverse order
SimRewrites ==
  UNION {({Build(WordRun(q[1], q[2], r), st) :
             <<r, st>> \in (1..(IF q[2] = 0 THEN 1 ELSE MaxReps)) \X Styles}
            \X ({Build(WordRun(q[1], q[2], r), "plain") : r \in 1..MaxReps}
                  \cup {Build(Reverse(WordRun(q[1], q[2], 1)), "plain")})) :
         q \in SimRuns}

\* the texts check_plagiarism is run on: runs of ScanWords words, and of one
\* word less, each written MaxReps times
ScanWords == 6
MaxCorpus == 2

ScanRuns ==
  {q \in {1, 4, 6} \X {ScanWords - 1, ScanWords} : q[1] + q[2] - 1 <= Len(Vocabulary)}

ScanEntries == {Build(WordRun(q[1], q[2], MaxReps), "plain") : q \in ScanRuns} \cup {<<>>}

ScanCandidates ==
  {Build(WordRun(q[1], q[2], 1), "plain") : q \in {r \in ScanRuns : r[2] = ScanWords}}
    \cup {<<>>}

ScanCorpora == UNION {[1..k -> ScanEntries] : k \in 0..MaxCorpus}

TextEssay == Build(<<1, 2, 3, 4, 5>>, "messy")
TextBracket == <<"[", "1", "]", " ">> \o Build(<<1, 2, 3, 4, 5>>, "plain")
ParaOne == Build(<<1, 2, 3>>, "messy")
ParaTwo == Build(<<4, 6, 7>>, "plain")

\* a text longer than the preview the table keeps: four words over and over,
\* and a fifth word at its end
ThesisReps == 6
TextThesis == Build(WordRun(1, 4, ThesisReps) \o <<5>>, "plain")

(* ------------------------------ extraction ----------------------------- *)

NameEssayTxt == <<"e", "s", "s", "a", "y", ".", "t", "x", "t">>
NameNotesTxt == <<"N", "o", "t", "e", "s", ".", "T", "X", "T">>
NameBlankTxt == <<"b", "l", "a", "n", "k", ".", "t", "x", "t">>
NameScanPdf == <<"s", "c", "a", "n", ".", "p", "d", "f">>
NameBrokenPdf == <<"b", "r", "o", "k", "e", "n", ".", "p", "d", "f">>
NameReportDocx == <<"r", "e", "p", "o", "r", "t", ".", "d", "o", "c", "x">>
NameOldDoc == <<"o", "l", "d", ".", "d", "o", "c">>
NameSheetOdt == <<"s", "h", "e", "e", "t", ".", "o", "d", "t">>
NameThesisTxt == <<"t", "h", "e", "s", "i", "s", ".", "t", "x", "t">>
ErrEof ==
  <<"E", "O", "F", " ", "m", "a", "r", "k", "e", "r", " ", "n", "o", "t", " ",
    "f", "o", "u", "n", "d">>
DotTxt == <<".", "t", "x", "t">>
DotPdf == <<".", "p", "d", "f">>
DotDocx == <<".", "d", "o", "c", "x">>
DotDoc == <<".", "d", "o", "c">>

MarkerPdfScanned ==
  <<"[", "P", "D", "F", " ", "a", "p", "p", "e", "a", "r", "s", " ", "t", "o", " ", "b", "e", " ", "s", "c", "a", "n", "n", "e", "d", "/", "i", "m", "a", "g", "e", "-", "b", "a", "s", "e", "d", ".", " ", "T", "e", "x", "t", " ", "e", "x", "t", "r", "a", "c", "t", "i", "o", "n", " ", "l", "i", "m", "i", "t", "e", "d", ".", "]">>
MarkerPdfImport ==
  <<"[", "P", "D", "F", " ", "p", "r", "o", "c", "e", "s", "s", "i", "n", "g", " ", "r", "e", "q", "u", "i", "r", "e", "s", " ", "P", "y", "P", "D", "F", "2", ".", " ", "P", "l", "e", "a", "s", "e", " ", "i", "n", "s", "t", "a", "l", "l", " ", "o", "r", " ", "u", "s", "e", " ", "T", "X", "T", " ", "f", "i", "l", "e", "s", ".", "]">>
MarkerPdfErrorHead ==
  <<"[", "E", "r", "r", "o", "r", " ", "r", "e", "a", "d", "i", "n", "g", " ", "P", "D", "F", ":", " ">>
MarkerDocxEmpty ==
  <<"[", "C", "o", "u", "l", "d", " ", "n", "o", "t", " ", "e", "x", "t", "r", "a", "c", "t", " ", "t", "e", "x", "t", " ", "f", "r", "o", "m", " ", "D", "O", "C", "X", " ", "f", "i", "l", "e", "]">>
MarkerDocxImport ==
  <<"[", "D", "O", "C", "X", " ", "p", "r", "o", "c", "e", "s", "s", "i", "n", "g", " ", "r", "e", "q", "u", "i", "r", "e", "s", " ", "p", "y", "t", "h", "o", "n", "-", "d", "o", "c", "x", ".", " ", "P", "l", "e", "a", "s", "e", " ", "i", "n", "s", "t", "a", "l", "l", " ", "o", "r", " ", "u", "s", "e", " ", "T", "X", "T", " ", "f", "i", "l", "e", "s", ".", "]">>
MarkerDocxErrorHead ==
  <<"[", "E", "r", "r", "o", "r", " ", "r", "e", "a", "d", "i", "n", "g", " ", "D", "O", "C", "X", ":", " ">>
MarkerUnsupportedHead ==
  <<"[", "U", "n", "s", "u", "p", "p", "o", "r", "t", "e", "d", " ", "f", "i", "l", "e", " ", "f", "o", "r", "m", "a", "t", ":", " ">>

PdfPageCap == 10
ErrMsgCap == 100

\* An uploaded file: its name, and what the decoding library makes of its
\* bytes: the decoded text of a .txt (one unit), the page texts of a PDF, the
\* paragraph texts of a DOCX; liberr says whether the library is missing
\* ("import") or raises on these bytes ("exception", with message msg).
MkFile(name, units, liberr, msg) ==
  [name |-> name, units |-> units, liberr |-> liberr, msg |-> msg]

FileEssay == MkFile(NameEssayTxt, <<TextEssay>>, "none", <<>>)
FileNotes == MkFile(NameNotesTxt, <<TextBracket>>, "none", <<>>)
FileBlank == MkFile(NameBlankTxt, <<(<<>>)>>, "none", <<>>)
FileScan == MkFile(NameScanPdf, <<(<<>>), <<" ">>>>, "none", <<>>)
FileBroken == MkFile(NameBrokenPdf, <<>>, "exception", ErrEof)
FileReport == MkFile(NameReportDocx, <<ParaOne, <<" ">>, ParaTwo>>, "none", <<>>)
FileOld == MkFile(NameOldDoc, <<TextEssay>>, "import", <<>>)
FileThesis == MkFile(NameThesisTxt, <<TextThesis>>, "none", <<>>)
FileSheet == MkFile(NameSheetOdt, <<TextEssay>>, "none", <<>>)

Files ==
  {FileEssay, FileNotes, FileBlank, FileScan, FileBroken, FileReport, FileOld,
   FileSheet}

NoFile == MkFile(<<>>, <<>>, "none", <<>>)

\* text += page_text + "\n" for each of the first `cap` pages with text
RECURSIVE PagesText(_, _, _, _)
PagesText(pages, i, cap, text) ==
  IF i > Len(pages) \/ i > cap THEN text
  ELSE PagesText(pages, i + 1, cap,
                 IF pages[i] # <<>> THEN text \o pages[i] \o <<"\n">> ELSE text)

\* text += para.text + "\n" for each paragraph that is not blank
RECURSIVE ParagraphsText(_, _, _)
ParagraphsText(paras, i, text) ==
  IF i > Len(paras) THEN text
  ELSE ParagraphsText(paras, i + 1,
                      IF ~IsBlank(paras[i]) THEN text \o paras[i] \o <<"\n">> ELSE text)

extract_text_from_pdf(f) ==
  IF f.liberr = "import" THEN MarkerPdfImport
  ELSE IF f.liberr = "exception"
       THEN MarkerPdfErrorHead \o Prefix(f.msg, ErrMsgCap) \o <<"]">>
       ELSE LET text == PagesText(f.units, 1, PdfPageCap, <<>>)
            IN IF ~IsBlank(text) THEN text ELSE MarkerPdfScanned

extract_text_from_docx(f) ==
  IF f.liberr = "import" THEN MarkerDocxImport
  ELSE IF f.liberr = "exception"
       THEN MarkerDocxErrorHead \o Prefix(f.msg, ErrMsgCap) \o <<"]">>
       ELSE LET text == ParagraphsText(f.units, 1, <<>>)
            IN IF ~IsBlank(text) THEN text ELSE MarkerDocxEmpty

extract_text_from_file(f) ==
  LET file_name == Lower(f.name)
  IN IF EndsWith(file_name, DotTxt)
     THEN IF f.liberr = "none" THEN f.units[1] ELSE <<>>
     ELSE IF EndsWith(file_name, DotPdf) THEN extract_text_from_pdf(f)
     ELSE IF EndsWith(file_name, DotDocx) \/ EndsWith(file_name, DotDoc)
          THEN extract_text_from_docx(f)
     ELSE MarkerUnsupportedHead \o f.name \o <<"]">>

\* whether extract_text_from_file returns from one of its failure branches:
\* the except of the .txt read, an ImportError or exception marker, the
\* no-text marker of a PDF or DOCX, or the unsupported-format marker
extraction_failed(f) ==
  LET file_name == Lower(f.name)
  IN IF EndsWith(file_name, DotTxt) THEN f.liberr # "none"
     ELSE IF EndsWith(file_name, DotPdf)
          THEN f.liberr # "none" \/ IsBlank(PagesText(f.units, 1, PdfPageCap, <<>>))
     ELSE IF EndsWith(file_name, DotDocx) \/ EndsWith(file_name, DotDoc)
          THEN f.liberr # "none" \/ IsBlank(ParagraphsText(f.units, 1, <<>>))
     ELSE TRUE

\* st.file_uploader(type=['txt', 'pdf', 'docx', 'doc'])
UploaderAccepts(f) ==
  LET file_name == Lower(f.name)
  IN \/ EndsWith(file_name, DotTxt) \/ EndsWith(file_name, DotPdf)
     \/ EndsWith(file_name, DotDocx) \/ EndsWith(file_name, DotDoc)

\* the gate without its test for a marker
SubmissionGate_nonempty(extracted_text) == extracted_text # <<>>

\* if extracted_text and not extracted_text.startswith("["):
SubmissionGate(extracted_text) ==
  extracted_text # <<>> /\ ~StartsWith(extracted_text, <<"[">>)

\* uploaded_file.name.split('.')[-1]
RECURSIVE LastDotFrom(_, _, _)
LastDotFrom(name, i, last) ==
  IF i > Len(name) THEN last
  ELSE LastDotFrom(name, i + 1, IF name[i] = "." THEN i ELSE last)

AfterLastDot(name) == SubSeq(name, LastDotFrom(name, 1, 0) + 1, Len(name))

(* ------------------------------- scanning ------------------------------ *)

\* the texts the uploads of this model extract to, and their stored previews
KnownTexts ==
  {extract_text_from_file(f) : f \in Files}
    \cup {Prefix(extract_text_from_file(f), PreviewLen) : f \in Files}

\* calculate_similarity on the known texts, computed once
SimilarityTable ==
  {<<p[1], p[2], calculate_similarity(p[1], p[2])>> : p \in KnownTexts \X KnownTexts}

\* calculate_similarity of the scan candidates and the corpus entries,
\* computed once
ScanTable ==
  {<<p[1], p[2], calculate_similarity(p[1], p[2])>> : p \in ScanCandidates \X ScanEntries}

\* calculate_similarity(text1, text2), looked up when both texts are known
Similarity(text1, text2) ==
  IF text1 \in KnownTexts /\ text2 \in KnownTexts
  THEN (CHOOSE t \in SimilarityTable : t[1] = text1 /\ t[2] = text2)[3]
  ELSE IF text1 \in ScanCandidates /\ text2 \in ScanEntries
  THEN (CHOOSE t \in ScanTable : t[1] = text1 /\ t[2] = text2)[3]
  ELSE calculate_similarity(text1, text2)

RECURSIVE MaxScoreFrom(_, _, _, _)
MaxScoreFrom(new_text, previous_texts, i, max_score) ==
  IF i > Len(previous_texts) THEN max_score
  ELSE LET prev_text == previous_texts[i]
           score == IF prev_text # <<>>
                    THEN Similarity(new_text, prev_text)
                    ELSE Zero
       IN MaxScoreFrom(new_text, previous_texts, i + 1,
                       IF ScoreLess(max_score, score) THEN score ELSE max_score)

\* the scan that reports only a maximum above the floor
check_plagiarism_above(new_text, previous_texts) ==
  IF previous_texts = <<>> THEN Zero
  ELSE LET max_score == MaxScoreFrom(new_text, previous_texts, 1, Zero)
       IN IF ScoreLess(Frac(ReportFloor, 1), max_score) THEN max_score ELSE Zero

\* the scan that keeps the score of the last text instead of the highest
check_plagiarism_last(new_text, previous_texts) ==
  IF previous_texts = <<>> THEN Zero
  ELSE LET max_score == MaxScoreFrom(new_text,
                                     <<previous_texts[Len(previous_texts)]>>, 1, Zero)
       IN IF ~ScoreLess(max_score, Frac(ReportFloor, 1)) THEN max_score ELSE Zero

check_plagiarism(new_text, previous_texts) ==
  IF previous_texts = <<>> THEN Zero
  ELSE LET max_score == MaxScoreFrom(new_text, previous_texts, 1, Zero)
       IN IF ~ScoreLess(max_score, Frac(ReportFloor, 1)) THEN max_score ELSE Zero

(* ------------------------------ the display ---------------------------- *)

\* the score column with "< 30" read as "up to 30"
banner_upto(score) ==
  IF score = Zero THEN "ORIGINAL"
  ELSE IF ~ScoreLess(Frac(30, 1), score) THEN "LOW SIMILARITY"
  ELSE IF ScoreLess(score, Frac(70, 1)) THEN "MODERATE SIMILARITY"
  ELSE "HIGH SIMILARITY"

\* the label of the score column: if plagiarism_score == 0 ... elif < 30 ...
\* elif < 70 ... else
banner(score) ==
  IF score = Zero THEN "ORIGINAL"
  ELSE IF ScoreLess(score, Frac(30, 1)) THEN "LOW SIMILARITY"
  ELSE IF ScoreLess(score, Frac(70, 1)) THEN "MODERATE SIMILARITY"
  ELSE "HIGH SIMILARITY"

\* the interpretation line, by its opening words
interpretation(score) ==
  IF score = Zero THEN "Excellent! This appears to be original work"
  ELSE IF ScoreLess(score, Frac(30, 1)) THEN "Low similarity detected."
  ELSE IF ScoreLess(score, Frac(70, 1)) THEN "Moderate similarity detected."
  ELSE "High similarity detected."

(* -------------------------------- state -------------------------------- *)

MaxRuns == 3

\* two browser sessions
Sessions == {1, 2}

Student1 == <<"s", "t", "u", "d", "e", "n", "t", "1">>
Student2 == <<"s", "t", "u", "d", "e", "n", "t", "2">>
SlashId == <<"x", "/", "y">>

\* st.session_state.user_info of each browser session: the demo students
user(s) ==
  IF s % 2 = 1 THEN [name |-> "John Doe", username |-> Student1]
  ELSE [name |-> "Jane Smith", username |-> Student2]

\* what the student may leave in the "Student ID" box: the default (the
\* username), nothing, or an id with a path separator
StudentIdInputs(s) == {user(s).username, <<>>, SlashId}

NoScore == [num |-> 0 - 1, den |-> 1]

\* a cell pandas reads as missing
NaN == <<"NaN">>

VARIABLES
  logged_in,           \* st.session_state.logged_in of each browser session
  desk,                \* the (file, student id) entries each student has at hand
  clicked,             \* the button whose click awaits its script run: "none", "check", "submit"
  csv,                 \* database/submissions.csv: [bytes, rows]; bytes = FALSE: a 0-byte file
  uploads,             \* the files under uploads/: a set of [path, data]
  now,                 \* datetime.now(), in seconds: a second passes between script runs
  pc,                  \* where each session's script run stands
  uploaded_file,       \* the file in each session's uploader
  student_id,          \* the content of each session's "Student ID" box
  extracted_text,
  previous_texts,
  plagiarism_score,
  filename,
  df,                  \* save_submission_to_db's data frame
  success,             \* what save_submission_to_db returned: "none", "true", "false"
  acked,               \* history: the rows whose save returned True
  written,             \* history: how many saves completed df.to_csv
  fresh,               \* history: the score against the table the row was appended to
  last_good,           \* history: the rows of the last completed to_csv
  read_failed,         \* history: what the session's corpus read raised, or "no"
  snapshot_consistent, \* history: the snapshot was a table before or after a commit
  snapshot_raced,      \* history: the snapshot was taken during a to_csv
  overlapped,          \* history: a to_csv closed over what another had written meanwhile
  runs,                \* script runs started so far
  simA, simB, simScore, \* the scoring functions on their own
  simBack,             \* calculate_similarity with its arguments exchanged
  simAlt, simAltScore, \* another text with simA's words, and its score
  scanText, scanCorpus, \* check_plagiarism on its own: new_text, previous_texts
  scanMore,            \* a text that joins the corpus afterwards
  scanMax,             \* max_score when the loop ends (line 71)
  scanScore,           \* what check_plagiarism returns for the corpus
  scanGrown,           \* what it returns for the corpus followed by scanMore
  labelScore,          \* the result display on its own: the plagiarism_score shown
  bannerShown,         \* the label of the score column (lines 465-476)
  interpretationShown  \* the interpretation line (lines 505-512)

vars ==
  <<logged_in, desk, clicked, csv, uploads, now, pc, uploaded_file, student_id, extracted_text,
    previous_texts, plagiarism_score, filename, df, success, acked, written,
    fresh, last_good, read_failed, snapshot_consistent, snapshot_raced,
    overlapped, runs, simA, simB, simScore, simBack, simAlt, simAltScore,
    scanText, scanCorpus, scanMore, scanMax, scanScore, scanGrown,
    labelScore, bannerShown, interpretationShown>>

envVars == <<logged_in, desk, clicked>>
storeVars == <<csv, uploads>>
localVars ==
  <<uploaded_file, student_id, extracted_text, previous_texts, plagiarism_score,
    filename, df, success>>
historyVars ==
  <<acked, written, fresh, last_good, read_failed, snapshot_consistent,
    snapshot_raced, overlapped>>
scanVars == <<scanText, scanCorpus, scanMore, scanMax, scanScore, scanGrown>>
labelVars == <<labelScore, bannerShown, interpretationShown>>
simVars == <<simA, simB, simScore, simBack, simAlt, simAltScore, scanVars, labelVars>>

NoName == [sid |-> <<>>, ts |-> 0, name |-> <<>>]

\* the state init_database leaves, with every session logged in as a student
StoreInit ==
  /\ csv = [bytes |-> TRUE, rows |-> <<>>]
  /\ clicked = [s \in Sessions |-> "none"]
  /\ uploads = {}
  /\ now = 0
  /\ pc = [s \in Sessions |-> "idle"]
  /\ uploaded_file = [s \in Sessions |-> NoFile]
  /\ student_id = [s \in Sessions |-> <<>>]
  /\ extracted_text = [s \in Sessions |-> <<>>]
  /\ previous_texts = [s \in Sessions |-> <<>>]
  /\ plagiarism_score = [s \in Sessions |-> NoScore]
  /\ filename = [s \in Sessions |-> NoName]
  /\ df = [s \in Sessions |-> <<>>]
  /\ success = [s \in Sessions |-> "none"]
  /\ acked = {}
  /\ written = 0
  /\ fresh = [s \in Sessions |-> NoScore]
  /\ last_good = <<>>
  /\ read_failed = [s \in Sessions |-> "no"]
  /\ snapshot_consistent = [s \in Sessions |-> TRUE]
  /\ snapshot_raced = [s \in Sessions |-> FALSE]
  /\ overlapped = FALSE
  /\ runs = 0

LabelIdle ==
  /\ labelScore = NoScore
  /\ bannerShown = "none"
  /\ interpretationShown = "none"

ScanIdle ==
  /\ scanText = <<>>
  /\ scanCorpus = <<>>
  /\ scanMore = <<>>
  /\ scanMax = NoScore
  /\ scanScore = NoScore
  /\ scanGrown = NoScore

SimIdle ==
  /\ simA = <<>>
  /\ simB = <<>>
  /\ simScore = NoScore
  /\ simBack = NoScore
  /\ simAlt = <<>>
  /\ simAltScore = NoScore
  /\ ScanIdle
  /\ LabelIdle

\* two students at work at once, each with the essay; the second also has a
\* report that shares words with it
ClassDesk(s) ==
  IF s = 1 THEN {<<FileEssay, user(s).username>>}
  ELSE {<<FileEssay, user(s).username>>, <<FileReport, user(s).username>>}

\* one student with every kind of file, who may also leave the id box empty
\* or type a path separator
SoloDesk(s) ==
  {<<f, user(s).username>> : f \in Files}
    \cup {<<FileEssay, sid>> : sid \in StudentIdInputs(s)}

\* one student with a long text and a short one
LongDesk(s) == {<<FileThesis, user(s).username>>, <<FileEssay, user(s).username>>}

Init ==
  /\ StoreInit
  /\ logged_in = [s \in Sessions |-> TRUE]
  /\ desk = [s \in Sessions |-> ClassDesk(s)]
  /\ SimIdle

InitSolo ==
  /\ StoreInit
  /\ logged_in = [s \in Sessions |-> s = 1]
  /\ desk = [s \in Sessions |-> SoloDesk(s)]
  /\ SimIdle

InitLong ==
  /\ StoreInit
  /\ logged_in = [s \in Sessions |-> s = 1]
  /\ desk = [s \in Sessions |-> LongDesk(s)]
  /\ SimIdle

(* ------------------------------- the store ----------------------------- *)

\* the strings pandas.read_csv takes as a missing value, among this model's
NaStrings == {<<>>, <<"N", "A">>, <<"n", "a", "n">>, <<"n", "u", "l", "l">>}

FromCsvCell(v) == IF v \in NaStrings THEN NaN ELSE v

ToCsvCell(v) == IF v = NaN THEN <<>> ELSE v

\* pd.read_csv of the rows: the text cells that read as missing become NaN
read_csv(rows) ==
  [i \in 1..Len(rows) |->
     [rows[i] EXCEPT !.student_id = FromCsvCell(@),
                     !.text_preview = FromCsvCell(@)]]

\* df.to_csv(index=False): NaN is written as an empty cell
to_csv(frame) ==
  [i \in 1..Len(frame) |->
     [frame[i] EXCEPT !.student_id = ToCsvCell(@),
                      !.text_preview = ToCsvCell(@)]]

\* df['text_preview'].dropna().astype(str).tolist()
RECURSIVE PreviewsFrom(_, _, _)
PreviewsFrom(frame, i, acc) ==
  IF i > Len(frame) THEN acc
  ELSE PreviewsFrom(frame, i + 1,
                    IF frame[i].text_preview = NaN THEN acc
                    ELSE Append(acc, frame[i].text_preview))

Corpus(rows) == PreviewsFrom(read_csv(rows), 1, <<>>)

\* the sessions inside df.to_csv: the file is opened (truncated), not yet written
Writers == {w \in Sessions : pc[w] = "save_open"}

\* the row save_submission_to_db builds for the data frame it has read
new_row(s, frame, fname) ==
  [id |-> Len(frame) + 1,
   student_name |-> user(s).name,
   student_id |-> student_id[s],
   filename |-> fname,
   file_type |-> Upper(Upper(AfterLastDot(uploaded_file[s].name))),
   word_count |-> Len(Split(extracted_text[s])),
   char_count |-> Len(extracted_text[s]),
   text_preview |-> Prefix(extracted_text[s], PreviewLen),
   submission_time |-> now,
   plagiarism_score |-> plagiarism_score[s],
   status |-> "Submitted"]

\* the row of session s's save as df.to_csv writes it
OwnCsvRow(s) == to_csv(df[s])[Len(df[s])]

\* the table written at offset 0 of a file that another writer has filled
\* since this writer truncated it: what lies beyond the written rows stays
\* (the history variable overlapped marks the runs in which this happened)
Overlay(mine, there) ==
  IF Len(there) > Len(mine)
  THEN mine \o SubSeq(there, Len(mine) + 1, Len(there))
  ELSE mine

\* open(f"uploads/{filename}", 'wb') finds its directory
PathOpens(fname) == \A i \in 1..Len(fname.sid) : fname.sid[i] # "/"

(* ------------------------------- actions ------------------------------- *)

\* A script run of show_student_dashboard with a file in the uploader: the
\* bytes are kept, the text is extracted and the gate decides what is shown.
Upload(s, f, sid) ==
  /\ logged_in[s]
  /\ pc[s] = "idle"
  /\ runs < MaxRuns
  /\ <<f, sid>> \in desk[s]
  /\ UploaderAccepts(f)
  /\ runs' = runs + 1
  /\ now' = now + 1
  /\ uploaded_file' = [uploaded_file EXCEPT ![s] = f]
  /\ student_id' = [student_id EXCEPT ![s] = sid]
  /\ extracted_text' = [extracted_text EXCEPT ![s] = extract_text_from_file(f)]
  /\ pc' = [pc EXCEPT ![s] =
              IF SubmissionGate(extract_text_from_file(f)) THEN "shown" ELSE "rejected"]
  /\ UNCHANGED <<envVars, storeVars, previous_texts, plagiarism_score, filename, df,
                 success, historyVars, simVars>>

\* get_previous_submissions: the previews of the table, or [] when read_csv
\* raises (raised names the exception, "no" for none)
get_previous_submissions(raised) ==
  IF raised # "no" THEN <<>> ELSE Corpus(csv.rows)

\* "Check for Plagiarism": the corpus is read and the score computed and shown
Check(s, raised) ==
  /\ pc[s] = "shown"
  /\ previous_texts' = [previous_texts EXCEPT ![s] = get_previous_submissions(raised)]
  /\ plagiarism_score' =
       [plagiarism_score EXCEPT ![s] =
          check_plagiarism(extracted_text[s], get_previous_submissions(raised))]
  /\ pc' = [pc EXCEPT ![s] = "checked"]
  /\ read_failed' = [read_failed EXCEPT ![s] = raised]
  /\ snapshot_raced' = [snapshot_raced EXCEPT ![s] = Writers # {}]
  /\ snapshot_consistent' =
       [snapshot_consistent EXCEPT ![s] =
          get_previous_submissions(raised) \in
            {Corpus(last_good)} \cup {Corpus(to_csv(df[w])) : w \in Writers}]
  /\ UNCHANGED <<envVars, storeVars, now, uploaded_file, student_id, extracted_text, filename,
                 df, success, acked, written, fresh, last_good, overlapped, runs, simVars>>

\* read_csv raises EmptyDataError on a 0-byte file
CheckClick(s) == Check(s, IF csv.bytes THEN "no" ELSE "EmptyDataError")

\* read_csv raises because the file system does
CheckClickReadError(s) == Check(s, "OSError")

\* save_submission_to_db returns False from its except branch
ReturnFalse(s) ==
  /\ success' = [success EXCEPT ![s] = "false"]
  /\ pc' = [pc EXCEPT ![s] = "done"]

\* "Submit Assignment": the file name is made and save_submission_to_db reads
\* the table and appends its row to the data frame (lines 484-267)
Submit(s, raised) ==
  /\ pc[s] = "checked"
  /\ LET fname == [sid |-> student_id[s], ts |-> now, name |-> uploaded_file[s].name]
         frame == read_csv(csv.rows)
     IN /\ filename' = [filename EXCEPT ![s] = fname]
        /\ IF raised # "no"
           THEN /\ ReturnFalse(s)
                /\ UNCHANGED <<df, fresh>>
           ELSE /\ df' = [df EXCEPT ![s] = Append(frame, new_row(s, frame, fname))]
                /\ fresh' = [fresh EXCEPT ![s] =
                               check_plagiarism(extracted_text[s], Corpus(csv.rows))]
                /\ pc' = [pc EXCEPT ![s] = "save_built"]
                /\ UNCHANGED success
  /\ UNCHANGED <<envVars, storeVars, now, uploaded_file, student_id, extracted_text,
                 previous_texts, plagiarism_score, acked, written, last_good,
                 read_failed, snapshot_consistent, snapshot_raced, overlapped, runs,
                 simVars>>

SubmitClick(s) == Submit(s, IF csv.bytes THEN "no" ELSE "EmptyDataError")

SubmitClickReadError(s) == Submit(s, "OSError")

\* df.to_csv opens the file for writing: it is truncated to 0 bytes
SaveOpen(s) ==
  /\ pc[s] = "save_built"
  /\ csv' = [bytes |-> FALSE, rows |-> <<>>]
  /\ pc' = [pc EXCEPT ![s] = "save_open"]
  /\ UNCHANGED <<envVars, uploads, now, localVars, historyVars, runs, simVars>>

\* df.to_csv cannot open the file: nothing is written
SaveOpenError(s) ==
  /\ pc[s] = "save_built"
  /\ ReturnFalse(s)
  /\ UNCHANGED <<envVars, storeVars, now, uploaded_file, student_id, extracted_text,
                 previous_texts, plagiarism_score, filename, df, historyVars, runs,
                 simVars>>

\* df.to_csv writes the table and closes the file
SaveClose(s) ==
  /\ pc[s] = "save_open"
  /\ csv' = [bytes |-> TRUE, rows |-> Overlay(to_csv(df[s]), csv.rows)]
  /\ last_good' = Overlay(to_csv(df[s]), csv.rows)
  /\ written' = written + 1
  /\ overlapped' = (overlapped \/ csv.bytes)
  /\ pc' = [pc EXCEPT ![s] = "save_written"]
  /\ UNCHANGED <<envVars, uploads, now, localVars, acked, fresh, read_failed,
                 snapshot_consistent, snapshot_raced, runs, simVars>>

\* df.to_csv raises while writing: the file stays as it is, truncated
SaveCloseError(s) ==
  /\ pc[s] = "save_open"
  /\ ReturnFalse(s)
  /\ UNCHANGED <<envVars, storeVars, now, uploaded_file, student_id, extracted_text,
                 previous_texts, plagiarism_score, filename, df, historyVars, runs,
                 simVars>>

\* the uploaded bytes are written under uploads/ and True is returned; open
\* raises when the path names a directory that does not exist
SaveUpload(s) ==
  /\ pc[s] = "save_written"
  /\ IF PathOpens(filename[s])
     THEN /\ uploads' = {u \in uploads : u.path # filename[s]}
                          \cup {[path |-> filename[s], data |-> uploaded_file[s].name]}
          /\ success' = [success EXCEPT ![s] = "true"]
          /\ pc' = [pc EXCEPT ![s] = "done"]
          /\ acked' = acked \cup {OwnCsvRow(s)}
     ELSE /\ ReturnFalse(s)
          /\ UNCHANGED <<uploads, acked>>
  /\ UNCHANGED <<envVars, csv, now, uploaded_file, student_id, extracted_text, previous_texts,
                 plagiarism_score, filename, df, written, fresh, last_good,
                 read_failed, snapshot_consistent, snapshot_raced, overlapped, runs,
                 simVars>>

\* writing the uploaded bytes raises because the file system does
SaveUploadError(s) ==
  /\ pc[s] = "save_written"
  /\ ReturnFalse(s)
  /\ UNCHANGED <<envVars, storeVars, now, uploaded_file, student_id, extracted_text,
                 previous_texts, plagiarism_score, filename, df, historyVars, runs,
                 simVars>>

\* the script run is over and the next one starts from a cleared page
Rerun(s) ==
  /\ pc[s] \in {"rejected", "shown", "checked", "done"}
  /\ pc' = [pc EXCEPT ![s] = "idle"]
  /\ uploaded_file' = [uploaded_file EXCEPT ![s] = NoFile]
  /\ student_id' = [student_id EXCEPT ![s] = <<>>]
  /\ extracted_text' = [extracted_text EXCEPT ![s] = <<>>]
  /\ previous_texts' = [previous_texts EXCEPT ![s] = <<>>]
  /\ plagiarism_score' = [plagiarism_score EXCEPT ![s] = NoScore]
  /\ filename' = [filename EXCEPT ![s] = NoName]
  /\ df' = [df EXCEPT ![s] = <<>>]
  /\ success' = [success EXCEPT ![s] = "none"]
  /\ fresh' = [fresh EXCEPT ![s] = NoScore]
  /\ read_failed' = [read_failed EXCEPT ![s] = "no"]
  /\ snapshot_consistent' = [snapshot_consistent EXCEPT ![s] = TRUE]
  /\ snapshot_raced' = [snapshot_raced EXCEPT ![s] = FALSE]
  /\ UNCHANGED <<envVars, storeVars, now, acked, written, last_good, overlapped, runs,
                 simVars>>

Next ==
  \/ \E s \in Sessions :
       \E f \in {e[1] : e \in desk[s]} : \E sid \in {e[2] : e \in desk[s]} : Upload(s, f, sid)
  \/ \E s \in Sessions : CheckClick(s)
  \/ \E s \in Sessions : CheckClickReadError(s)
  \/ \E s \in Sessions : SubmitClick(s)
  \/ \E s \in Sessions : SubmitClickReadError(s)
  \/ \E s \in Sessions : SaveOpen(s)
  \/ \E s \in Sessions : SaveOpenError(s)
  \/ \E s \in Sessions : SaveClose(s)
  \/ \E s \in Sessions : SaveCloseError(s)
  \/ \E s \in Sessions : SaveUpload(s)
  \/ \E s \in Sessions : SaveUploadError(s)
  \/ \E s \in Sessions : Rerun(s)

Spec == Init /\ [][Next]_vars

SpecSolo == InitSolo /\ [][Next]_vars

SpecLong == InitLong /\ [][Next]_vars

(* ------------------------- buttons and script runs ---------------------- *)

\* the student clicks "Check for Plagiarism", which is on the page whenever
\* the extracted text is shown
ClickCheck(s) ==
  /\ pc[s] \in {"shown", "checked"}
  /\ clicked[s] = "none"
  /\ clicked' = [clicked EXCEPT ![s] = "check"]
  /\ UNCHANGED <<logged_in, desk, storeVars, now, pc, localVars, historyVars, runs, simVars>>

\* the student clicks "Submit Assignment", which is on the page when the last
\* script run went through the branch of the Check button
ClickSubmit(s) ==
  /\ pc[s] = "checked"
  /\ clicked[s] = "none"
  /\ clicked' = [clicked EXCEPT ![s] = "submit"]
  /\ UNCHANGED <<logged_in, desk, storeVars, now, pc, localVars, historyVars, runs, simVars>>

\* the script run a click sets off (lines 415-512): the file is still in the
\* uploader and its text passes the gate again; each st.button returns True
\* only for the button whose click set this run off
ScriptRun(s) ==
  /\ clicked[s] # "none"
  /\ clicked' = [clicked EXCEPT ![s] = "none"]
  /\ LET check_button == clicked[s] = "check"
         submit_button == clicked[s] = "submit"
         raised == IF csv.bytes THEN "no" ELSE "EmptyDataError"
         texts == get_previous_submissions(raised)
         score == check_plagiarism(extracted_text[s], texts)
         fname == [sid |-> student_id[s], ts |-> now, name |-> uploaded_file[s].name]
         frame == read_csv(csv.rows)
     IN IF check_button
        THEN /\ previous_texts' = [previous_texts EXCEPT ![s] = texts]
             /\ plagiarism_score' = [plagiarism_score EXCEPT ![s] = score]
             /\ read_failed' = [read_failed EXCEPT ![s] = raised]
             /\ snapshot_raced' = [snapshot_raced EXCEPT ![s] = Writers # {}]
             /\ snapshot_consistent' =
                  [snapshot_consistent EXCEPT ![s] =
                     texts \in {Corpus(last_good)} \cup {Corpus(to_csv(df[w])) : w \in Writers}]
             /\ IF submit_button
                THEN /\ filename' = [filename EXCEPT ![s] = fname]
                     /\ IF raised # "no"
                        THEN /\ ReturnFalse(s)
                             /\ UNCHANGED <<df, fresh>>
                        ELSE /\ df' = [df EXCEPT ![s] =
                                         Append(frame,
                                                [new_row(s, frame, fname)
                                                   EXCEPT !.plagiarism_score = score])]
                             /\ fresh' = [fresh EXCEPT ![s] = score]
                             /\ pc' = [pc EXCEPT ![s] = "save_built"]
                             /\ UNCHANGED success
                ELSE /\ pc' = [pc EXCEPT ![s] = "checked"]
                     /\ UNCHANGED <<filename, df, fresh, success>>
        ELSE /\ pc' = [pc EXCEPT ![s] = "shown"]
             /\ previous_texts' = [previous_texts EXCEPT ![s] = <<>>]
             /\ plagiarism_score' = [plagiarism_score EXCEPT ![s] = NoScore]
             /\ UNCHANGED <<filename, df, fresh, success, read_failed, snapshot_raced,
                            snapshot_consistent>>
  /\ UNCHANGED <<logged_in, desk, storeVars, now, uploaded_file, student_id, extracted_text,
                 acked, written, last_good, overlapped, runs, simVars>>

NextRerun ==
  \/ \E s \in Sessions :
       \E f \in {e[1] : e \in desk[s]} : \E sid \in {e[2] : e \in desk[s]} : Upload(s, f, sid)
  \/ \E s \in Sessions : ClickCheck(s)
  \/ \E s \in Sessions : ClickSubmit(s)
  \/ \E s \in Sessions : ScriptRun(s)

\* two students, each with every kind of file
InitRerun ==
  /\ StoreInit
  /\ logged_in = [s \in Sessions |-> TRUE]
  /\ desk = [s \in Sessions |-> SoloDesk(s)]
  /\ SimIdle

\* the framework runs the script after every click, and a student with a
\* button on the page goes on clicking
SpecRerun ==
  /\ InitRerun
  /\ [][NextRerun]_vars
  /\ \A s \in Sessions :
       WF_vars(ScriptRun(s)) /\ WF_vars(ClickCheck(s)) /\ WF_vars(ClickSubmit(s))

(* ----------------------- the scoring functions alone ------------------ *)

\* no session is logged in; a pair of texts is given
InitSim ==
  /\ StoreInit
  /\ logged_in = [s \in Sessions |-> FALSE]
  /\ desk = [s \in Sessions |-> {}]
  /\ \E p \in SimRewrites :
       /\ simA = p[1]
       /\ simAlt = p[2]
  /\ simA \in SimTexts
  /\ simB \in SimPartners \cup {simA}
  /\ simScore = NoScore
  /\ simBack = NoScore
  /\ simAltScore = NoScore
  /\ ScanIdle
  /\ LabelIdle

SimCalculate ==
  /\ simScore = NoScore
  /\ simScore' = calculate_similarity(simA, simB)
  /\ simBack' = calculate_similarity(simB, simA)
  /\ simAltScore' = calculate_similarity(simAlt, simB)
  /\ UNCHANGED <<envVars, storeVars, now, pc, localVars, historyVars, runs, simA, simB,
                 simAlt, scanVars, labelVars>>

NextSim == SimCalculate

SpecSim == InitSim /\ [][NextSim]_vars

(* -------------------------------- claims -------------------------------- *)

SavePcs == {"save_built", "save_open", "save_written"}

\* the row of session s's save is in the table a later read gets
Visible(s) ==
  /\ csv.bytes
  /\ \E i \in 1..Len(csv.rows) : csv.rows[i] = OwnCsvRow(s)

FileNamed(name) == CHOOSE f \in Files : f.name = name

\* the files whose extraction fails, and the files whose extracted text the
\* gate lets through
FailedFiles == {g : g \in {f \in Files : extraction_failed(f)}}
ExtractedTexts == {<<f, extract_text_from_file(f)>> : f \in Files}
PassedFiles == {p[1] : p \in {q \in ExtractedTexts : SubmissionGate(q[2])}}

\* C1 (as claimed): once the concurrent saves have all run their steps (read,
\* id = row count + 1, append, rewrite), the table holds one record per save
\* that rewrote it, with the ids 1, 2, ..., N: no gaps and no duplicates.
\* (C1, C2, C4 and C5 are stated for the runs in which no rewrite closed over
\* another's bytes, where the file is exactly the last table written.)
C1_CommitAtomicity ==
  ((\A s \in Sessions : pc[s] \notin SavePcs) /\ csv.bytes /\ ~overlapped)
    => /\ Len(csv.rows) = written
       /\ \A i \in 1..Len(csv.rows) : csv.rows[i].id = i

\* C2 (as claimed): every submission whose save returned success is still in
\* the table, unchanged, whenever no rewrite of the table is under way.
C2_AppendOnly ==
  (Writers = {} /\ csv.bytes /\ ~overlapped)
    => \A r \in acked : \E i \in 1..Len(csv.rows) : csv.rows[i] = r

\* C3 (as claimed): a save that returned failure left no new record for later
\* reads, and a save that returned success left its record for them.
C3_NoPartialCommit ==
  \A s \in Sessions :
    pc[s] = "done" =>
      /\ (success[s] = "false" /\ df[s] # <<>>) => ~Visible(s)
      /\ success[s] = "true" => Visible(s)

\* C4 (as claimed): the score stored with a record is check_plagiarism of its
\* text against the corpus of the table the record was appended to.
C4_ScoreAgainstCorpusAtCommit ==
  \A s \in Sessions :
    (~overlapped /\ (pc[s] = "save_written" \/ (pc[s] = "done" /\ success[s] = "true")))
      => OwnCsvRow(s).plagiarism_score = fresh[s]

\* C5 (as claimed): a corpus snapshot taken while a save is rewriting the table
\* is the corpus before that save or the corpus after it.
C5_NoTornSnapshot ==
  \A s \in Sessions :
    (pc[s] = "checked" /\ snapshot_raced[s] /\ read_failed[s] # "OSError" /\ ~overlapped)
      => snapshot_consistent[s]

\* C6 (as claimed): when reading the table fails, the check does not go on to
\* compute and show a score.
C6_ReadFailurePropagated ==
  \A s \in Sessions : read_failed[s] # "no" => plagiarism_score[s] = NoScore

\* C7: a failed extraction blocks submission: the run stops at the error
\* message, no score is computed, save_submission_to_db is not entered, and no
\* record or upload exists for a file whose extraction fails.
C7_FailedExtractionBlocks ==
  /\ \A s \in Sessions :
       uploaded_file[s] \in FailedFiles
         => /\ pc[s] = "rejected"
            /\ plagiarism_score[s] = NoScore
            /\ df[s] = <<>>
            /\ success[s] = "none"
  /\ \A i \in 1..Len(csv.rows) : FileNamed(csv.rows[i].filename.name) \notin FailedFiles
  /\ \A u \in uploads : FileNamed(u.data) \notin FailedFiles
  /\ FailedFiles \cap PassedFiles = {}

\* C7 witness: a run stopped at the error message for a file whose extraction failed
C7_Witness ==
  \E s \in Sessions : pc[s] = "rejected" /\ uploaded_file[s] \in FailedFiles

\* C8 (as claimed): the gate reports an extraction failure exactly when the
\* extraction failed.
C8_FailureDistinguishable ==
  \A s \in Sessions :
    (uploaded_file[s] # NoFile /\ pc[s] # "idle")
      => (pc[s] = "rejected" <=> extraction_failed(uploaded_file[s]))

\* C9 (as claimed): a save with an empty student id does not touch the table
\* or the uploads directory and returns failure.
C9_ValidationBeforeMutation ==
  \A s \in Sessions :
    (uploaded_file[s] # NoFile /\ student_id[s] = <<>>)
      => /\ pc[s] \notin {"save_open", "save_written"}
         /\ pc[s] = "done" =>
              /\ success[s] = "false"
              /\ ~Visible(s)
              /\ \A u \in uploads : u.path # filename[s]

(* ------------------------- the scan and the display alone --------------- *)

InitScan ==
  /\ StoreInit
  /\ logged_in = [s \in Sessions |-> FALSE]
  /\ desk = [s \in Sessions |-> {}]
  /\ simA = <<>>
  /\ simB = <<>>
  /\ simScore = NoScore
  /\ simBack = NoScore
  /\ simAlt = <<>>
  /\ simAltScore = NoScore
  /\ scanText \in ScanCandidates
  /\ scanCorpus \in ScanCorpora
  /\ scanMore \in ScanEntries
  /\ scanMax = NoScore
  /\ scanScore = NoScore
  /\ scanGrown = NoScore
  /\ LabelIdle

\* check_plagiarism on the corpus, and on the corpus with one more text
ScanCheck ==
  /\ scanScore = NoScore
  /\ scanMax' = MaxScoreFrom(scanText, scanCorpus, 1, Zero)
  /\ scanScore' = check_plagiarism(scanText, scanCorpus)
  /\ scanGrown' = check_plagiarism(scanText, Append(scanCorpus, scanMore))
  /\ UNCHANGED <<envVars, storeVars, now, pc, localVars, historyVars, runs, simA, simB,
                 simScore, simBack, simAlt, simAltScore, scanText, scanCorpus, scanMore,
                 labelVars>>

NextScan == ScanCheck

SpecScan == InitScan /\ [][NextScan]_vars

\* the scores put on display: every multiple of 1/ScoreScale from 0 to 100
ScoreScale == 10

LabelScores == {Frac(k, ScoreScale) : k \in 0..(100 * ScoreScale)}

InitLabel ==
  /\ StoreInit
  /\ logged_in = [s \in Sessions |-> FALSE]
  /\ desk = [s \in Sessions |-> {}]
  /\ simA = <<>>
  /\ simB = <<>>
  /\ simScore = NoScore
  /\ simBack = NoScore
  /\ simAlt = <<>>
  /\ simAltScore = NoScore
  /\ ScanIdle
  /\ labelScore \in LabelScores
  /\ bannerShown = "none"
  /\ interpretationShown = "none"

\* the result display of the Check branch: score column, then interpretation
ShowResults ==
  /\ bannerShown = "none"
  /\ bannerShown' = banner(labelScore)
  /\ interpretationShown' = interpretation(labelScore)
  /\ UNCHANGED <<envVars, storeVars, now, pc, localVars, historyVars, runs, simA, simB,
                 simScore, simBack, simAlt, simAltScore, scanVars, labelScore>>

NextLabel == ShowResults

SpecLabel == InitLabel /\ [][NextLabel]_vars

(* ---------------------------- claims C10 to C18 ------------------------- *)

\* C10 (as claimed): a text with at least 5 distinct tokens scores 100 against
\* itself.
C10_SelfSimilarityByTokens ==
  (simScore # NoScore /\ simA = simB /\ Cardinality(WordSet(clean_text(simA))) >= 5)
    => simScore = Hundred

\* C10 (amended): a text whose cleaned form has at least 50 characters scores
\* 100 against itself.
C10_SelfSimilarityByLength ==
  (simScore # NoScore /\ simA = simB /\ Len(clean_text(simA)) >= MinCleanLen)
    => simScore = Hundred

\* C10 witness: such a text has been scored against itself
C10_Witness ==
  simScore = Hundred /\ simA = simB /\ Len(clean_text(simA)) >= MinCleanLen

\* C11 (as claimed): a text with fewer than 5 distinct tokens scores 0 against
\* every text, in both argument orders.
C11_GateByTokens ==
  (simScore # NoScore /\ Cardinality(WordSet(clean_text(simA))) < 5)
    => (simScore = Zero /\ simBack = Zero)

\* C11 (amended): a text whose cleaned form has fewer than 50 characters
\* scores 0 against every text, in both argument orders.
C11_GateByLength ==
  (simScore # NoScore /\ Len(clean_text(simA)) < MinCleanLen)
    => (simScore = Zero /\ simBack = Zero)

\* C11 witness: a short text has been scored against a long text that shares
\* words with it
C11_Witness ==
  /\ simScore = Zero
  /\ simBack = Zero
  /\ simA # <<>>
  /\ Len(clean_text(simA)) < MinCleanLen
  /\ Len(clean_text(simB)) >= MinCleanLen
  /\ WordSet(clean_text(simA)) \cap WordSet(clean_text(simB)) # {}

\* C14: calculate_similarity(a, b) = calculate_similarity(b, a) for all texts,
\* empty and short ones included.
C14_Symmetry == simScore = simBack

\* C14 witness: two different texts that pass the gate and share some of
\* their words have been scored in both orders
C14_Witness ==
  /\ simScore # NoScore
  /\ simScore = simBack
  /\ ScoreLess(Zero, simScore)
  /\ ScoreLess(simScore, Hundred)
  /\ Cardinality(WordSet(clean_text(simA))) # Cardinality(WordSet(clean_text(simB)))

\* C18: two texts with the same set of cleaned words score the same against
\* any third text.
C18_TokenSetsOnly ==
  (simScore # NoScore /\ WordSet(clean_text(simAlt)) = WordSet(clean_text(simA)))
    => simAltScore = simScore

C12_BelowFloor ==
  ScoreLess(Zero, scanMax) /\ ScoreLess(scanMax, Frac(ReportFloor, 1)) /\ scanScore = Zero

InterpretationLevel(line) ==
  IF line = "Excellent! This appears to be original work" THEN "ORIGINAL"
  ELSE IF line = "Low similarity detected." THEN "LOW SIMILARITY"
  ELSE IF line = "Moderate similarity detected." THEN "MODERATE SIMILARITY"
  ELSE IF line = "High similarity detected." THEN "HIGH SIMILARITY"
  ELSE "none"

\* C15: the label is ORIGINAL iff the score is 0, LOW iff 0 < score < 30,
\* MODERATE iff 30 <= score < 70, HIGH iff score >= 70, and the
\* interpretation line speaks of the same level as the label.
C15_ClassifierBoundaries ==
  bannerShown # "none"
    => /\ bannerShown = "ORIGINAL" <=> labelScore = Zero
       /\ bannerShown = "LOW SIMILARITY"
            <=> (ScoreLess(Zero, labelScore) /\ ScoreLess(labelScore, Frac(30, 1)))
       /\ bannerShown = "MODERATE SIMILARITY"
            <=> (~ScoreLess(labelScore, Frac(30, 1)) /\ ScoreLess(labelScore, Frac(70, 1)))
       /\ bannerShown = "HIGH SIMILARITY" <=> ~ScoreLess(labelScore, Frac(70, 1))
       /\ InterpretationLevel(interpretationShown) = bannerShown

\* C15 witness: a score of exactly 30 is on display as MODERATE
C15_Witness ==
  /\ labelScore = Frac(30, 1)
  /\ bannerShown = "MODERATE SIMILARITY"
  /\ interpretationShown = "Moderate similarity detected."

\* the file an upload of the given name came from
UploadedFileNamed(name) == CHOOSE f \in Files \cup {FileThesis} : f.name = name

\* session s has checked a text that passes the gate, and a record of a save
\* of exactly this text that returned True is in the table it read
CheckedAgainstOwnText(s) ==
  /\ pc[s] = "checked"
  /\ read_failed[s] = "no"
  /\ ~overlapped
  /\ Len(clean_text(extracted_text[s])) >= MinCleanLen
  /\ \E i \in 1..Len(csv.rows) :
       /\ csv.rows[i] \in acked
       /\ extract_text_from_file(UploadedFileNamed(csv.rows[i].filename.name))
            = extracted_text[s]

\* C16: once a text that passes the gate has been committed, a check of the
\* same text scores 100 and is labelled HIGH, whatever its length.
C16_IdenticalResubmission ==
  \A s \in Sessions :
    CheckedAgainstOwnText(s)
      => /\ plagiarism_score[s] = Hundred
         /\ banner(plagiarism_score[s]) = "HIGH SIMILARITY"

\* C17: a click on "Submit Assignment" is followed by a call of
\* save_submission_to_db.
C17_ConfirmationLeadsToCommit ==
  \A s \in Sessions :
    (clicked[s] = "submit") ~> (pc[s] \in SavePcs \/ success[s] # "none")

====
